---- MODULE Spec2Model ----
(***************************************************************************)
(* Model of centipede's filesystem crawler factory and glob cache          *)
(* (src/lib/centipede/Crawler/Fs/Path.py).                                 *)
(*                                                                         *)
(* Path keeps a process-wide OrderedDict of registered crawler types.      *)
(* Path.create walks that registry backwards, asks each type's test and    *)
(* constructs the first type that accepts.  Path.glob flattens the         *)
(* crawler's subtree and memoizes the list on the crawler.                 *)
(***************************************************************************)
EXTENDS Integers, Sequences, FiniteSets, TLC

\* ------------------------------------------------------------------ bounds
\* number of successful Path.register calls explored
MaxRegisterCalls == 3
\* number of crawler objects explored by the glob specification
MaxNodes == 3
\* number of crawler objects explored by the filter specification
MaxFilterNodes == 2
\* number of register calls explored by the filter specification
MaxFilterRegisterCalls == 2
\* number of glob calls explored by the glob and filter specifications
MaxGlobCalls == 2
\* number of variables set on a crawler after its construction
MaxJsonVars == 1
\* number of tags set on a crawler
MaxJsonTags == 1
\* number of register calls explored by the createFromPath specification
MaxFromPathRegisterCalls == 2
\* number of metadata dict objects alive at once
MaxDicts == 5
\* number of metadata dict objects alive at once in the aliasing specification
MaxAliasDicts == 3
\* number of _perform calls on a task
MaxPerformCalls == 2
\* number of crawlers bound to a task at once
MaxCrawlers == 2

\* --------------------------------------------------------------- universe
\* registered names handed to Path.register
Names == {"a", "b", "c"}

\* classes handed to Path.register; "Other" is not derived from Path
Classes == {"Path", "File", "Dpx", "DpxClientPlate", "Directory", "Other"}

\* kinds of path handed to Path.create: a directory, a text file, a dpx
\* file named like a client plate (XHE102_013_010.1084.dpx) and a dpx file
\* whose name has no '_' separated parts (image.dpx)
Paths == {"dir", "txt", "plate", "dpx"}

NoName == "-"
NoClass == "-"
NoPath == "-"

\* class Path(Crawler); class DpxClientPlate(centipede.Crawler.Fs.Image.Dpx)
Bases(cls) ==
    CASE cls = "Path" -> {"Path"}
      [] cls = "File" -> {"File", "Path"}
      [] cls = "Dpx" -> {"Dpx", "File", "Path"}
      [] cls = "DpxClientPlate" -> {"DpxClientPlate", "Dpx", "File", "Path"}
      [] cls = "Directory" -> {"Directory", "Path"}
      [] OTHER -> {cls}

\* issubclass(cls, base)
IsSubclass(cls, base) == base \in Bases(cls)

\* cls.test(pathHolder, parentCrawler): the base implementation raises
\* NotImplementedError; the recognizers override it (a file type accepts what
\* is not a directory, a directory type accepts a directory, Dpx accepts the
\* dpx files) and DpxClientPlate inherits the test of Dpx
Test(cls, p) ==
    CASE cls = "Path" -> "raise"
      [] cls = "File" -> IF p # "dir" THEN "true" ELSE "false"
      [] cls \in {"Dpx", "DpxClientPlate"} ->
            IF p \in {"plate", "dpx"} THEN "true" ELSE "false"
      [] cls = "Directory" -> IF p = "dir" THEN "true" ELSE "false"
      [] OTHER -> "raise"

\* cls(pathHolder, parentCrawler): DpxClientPlate.__init__ indexes
\* nameParts[1] and nameParts[2], an IndexError for a name without '_'
Construct(cls, p) ==
    IF cls = "DpxClientPlate" /\ p = "dpx" THEN "raise" ELSE "ok"

\* ------------------------------------------------------------------ state
VARIABLES
    regOrder,     \* keys of Path.__registeredTypes, in dictionary order
    regType,      \* Path.__registeredTypes[name]
    regLog,       \* history: names of the successful register calls, in call order
    lastRegister, \* history: the last register call and how it ended
    lastCreate,   \* history: the last Path.create call, the registry it ran on, how it ended
    nodes,        \* crawler objects constructed so far
    nodeClass,    \* class of each crawler object
    nodeType,     \* 'type' variable of each crawler object
    nodePath,     \* path kind each crawler object was created from
    children,     \* what children() of each crawler yields now
    globCache,    \* Path.__globCache of each crawler
    lastGlob,     \* history: the last glob call and how it ended
    globCalls,    \* history: number of glob calls so far
    jsonCrawler,  \* the crawler object of the serialization specification
    lastClone,    \* history: the last createFromJson(toJson()) and how it ended
    lastFromPath, \* history: the last createFromPath call and how it ended
    pathCrawlers, \* the crawlers bound to the CreateVersion task, with their target paths
    pub,          \* the publish attributes of the task and its loaded flag
    cvFiles,      \* CreateVersion.__files: file path -> the dict object recorded for it
    cvInfo,       \* CreateVersion.__info
    heap,         \* the live metadata dict objects, by identity
    callerRefs,   \* the dict objects the caller of the task still holds
    disk,         \* st_size of what exists below the version directory's data
    published,    \* what _perform wrote so far: path -> content
    lastAdd,      \* history: the last addFile call and how it ended
    addLog,       \* history: path -> what the latest successful addFile for it recorded
    lastMeta,     \* history: the last fileMetadata call and how it ended
    lastAccess,   \* history: the last accessor call and how it ended
    lastPerform   \* history: the last _perform call and how it ended

regVars == <<regOrder, regType, regLog, lastRegister>>
treeVars == <<nodes, nodeClass, nodeType, nodePath, children, globCache, lastGlob, globCalls>>
jsonVars == <<jsonCrawler, lastClone>>
versionVars == <<pathCrawlers, pub, cvFiles, cvInfo, heap, callerRefs, disk, published,
                 lastAdd, addLog, lastMeta, lastAccess, lastPerform>>
otherVars == <<jsonVars, lastFromPath, versionVars>>
pathVars == <<regVars, lastCreate, treeVars, jsonVars, lastFromPath>>
vars == <<regOrder, regType, regLog, lastRegister, lastCreate,
          nodes, nodeClass, nodeType, nodePath, children, globCache, lastGlob,
          globCalls, jsonCrawler, lastClone, lastFromPath,
          pathCrawlers, pub, cvFiles, cvInfo, heap, callerRefs, disk, published,
          lastAdd, addLog, lastMeta, lastAccess, lastPerform>>

\* ---------------------------------------------------------------- helpers
Range(s) == {s[i] : i \in 1..Len(s)}

RECURSIVE Reverse(_)
Reverse(s) == IF s = <<>> THEN <<>> ELSE Append(Reverse(Tail(s)), Head(s))

\* ------------------------------------------------------- Path.register
\* OrderedDict.__setitem__ moving an existing key to the end
OrderedDictSetKeysMoveToEnd(order, name) ==
    Append(SelectSeq(order, LAMBDA k : k # name), name)

\* OrderedDict.__setitem__: a new key is appended, an existing key keeps its place
OrderedDictSetKeys(order, name) ==
    IF name \in Range(order) THEN order ELSE Append(order, name)

OrderedDictSetValues(types, name, cls) ==
    [k \in (DOMAIN types) \cup {name} |-> IF k = name THEN cls ELSE types[k]]

\* Path.register(name, crawlerClass), for at most maxCalls successful calls
Register(name, crawlerClass, maxCalls) ==
    /\ Len(regLog) < maxCalls
    /\ IF IsSubclass(crawlerClass, "Path")
       THEN /\ regOrder' = OrderedDictSetKeys(regOrder, name)
            /\ regType' = OrderedDictSetValues(regType, name, crawlerClass)
            /\ regLog' = Append(regLog, name)
            /\ lastRegister' = [name |-> name, cls |-> crawlerClass, outcome |-> "ok"]
       ELSE \* assert issubclass(crawlerClass, Path)
            /\ lastRegister' = [name |-> name, cls |-> crawlerClass, outcome |-> "AssertionError"]
            /\ UNCHANGED <<regOrder, regType, regLog>>
    /\ UNCHANGED <<lastCreate, treeVars, otherVars>>


\* ---------------------------------------------------------- Path.create
\* how a Path.create call ends: outcome is "node" (a crawler is returned),
\* "TestCrawlerError", "CreateCrawlerError" or "AssertionError" (no type
\* accepted the path); name and path are the ones the error message is
\* formatted with, or the 'type' variable and path of the returned crawler;
\* tested and constructed list the names whose test and whose constructor
\* were invoked, in call order
CreateResult(outcome, name, cls, p, tested, constructed) ==
    [outcome |-> outcome, name |-> name, cls |-> cls, path |-> p,
     tested |-> tested, constructed |-> constructed]

RECURSIVE CreateLoop(_, _, _, _, _)

\* iterating the keys in registration order
ForwardKeys(order) == order

\* reversed(Path.__registeredTypes.keys())
ReversedKeys(order) == Reverse(order)

\* an except clause that treats a raising test as a failed test
TestOrFalse(cls, p) == IF Test(cls, p) = "raise" THEN "false" ELSE Test(cls, p)

\* the try block around testCrawlerType.test(pathHolder, parentCrawler):
\* "raise" is an exception caught by the except clause
TryTest(cls, p) == Test(cls, p)

\* raise TestCrawlerError('Error on testing a crawler "{}" for "{}"\n{}')
OnTestError(registeredName, cls, p, tested) ==
    CreateResult("TestCrawlerError", registeredName, NoClass, p, tested, <<>>)

\* a construction failure that falls through to the next registered type
OnCreateErrorTryNext(rest, types, registeredName, p, tested, constructed) ==
    CreateLoop(rest, types, p, tested, constructed)

\* raise CreateCrawlerError('Error on creating a crawler "{}" for "{}"\n{}')
OnCreateError(rest, types, registeredName, p, tested, constructed) ==
    CreateResult("CreateCrawlerError", registeredName, NoClass, p, tested, constructed)

\* a loop that keeps testing after a crawler was created; the later, lower
\* precedence match replaces the result
AfterCreateNoBreak(rest, types, registeredName, p, tested, constructed) ==
    LET later == CreateLoop(rest, types, p, tested, constructed)
    IN IF later.outcome = "AssertionError"
       THEN CreateResult("node", registeredName, types[registeredName], p,
                         later.tested, later.constructed)
       ELSE later

\* result.setVar('type', registeredName); break; assert result; return result
AfterCreate(rest, types, registeredName, p, tested, constructed) ==
    CreateResult("node", registeredName, types[registeredName], p, tested, constructed)

\* a factory that returns None when nothing matched
NoMatchReturnsNone(p, tested, constructed) ==
    CreateResult("none", NoName, NoClass, p, tested, constructed)

\* assert result, "Don't know how to create a path crawler for ..."
NoMatch(p, tested, constructed) ==
    CreateResult("AssertionError", NoName, NoClass, p, tested, constructed)

\* the for loop of Path.create over the keys still to visit
CreateLoop(keys, types, p, tested, constructed) ==
    IF keys = <<>> THEN NoMatch(p, tested, constructed)
    ELSE LET registeredName == Head(keys)
             testCrawlerType == types[registeredName]
             passedTest == TryTest(testCrawlerType, p)
             tested1 == Append(tested, registeredName)
         IN IF passedTest = "raise"
            THEN OnTestError(registeredName, testCrawlerType, p, tested1)
            ELSE IF passedTest = "true"
            THEN LET constructed1 == Append(constructed, registeredName)
                 IN IF Construct(testCrawlerType, p) = "raise"
                    THEN OnCreateError(Tail(keys), types, registeredName, p,
                                       tested1, constructed1)
                    ELSE AfterCreate(Tail(keys), types, registeredName, p,
                                     tested1, constructed1)
            ELSE CreateLoop(Tail(keys), types, p, tested1, constructed)

\* Path.create(pathHolder, parentCrawler) on the registry (order, types)
create(order, types, p) == CreateLoop(ReversedKeys(order), types, p, <<>>, <<>>)

\* a Path.create call whose result is dropped by the caller
Create(p) ==
    /\ lastCreate' = [call |-> create(regOrder, regType, p),
                      order |-> regOrder, types |-> regType, log |-> regLog]
    /\ UNCHANGED <<regVars, treeVars, otherVars>>

\* ------------------------------------------------------------ the tree
\* Crawler.isLeaf(): a crawler is a leaf iff it has no children
isLeaf(tree, crawler) == tree[crawler] = <<>>

RECURSIVE CollectPostOrder(_, _)
RECURSIVE CollectPostOrderChildren(_, _)
RECURSIVE collectCrawlers(_, _)
RECURSIVE collectChildren(_, _)

\* the post-order lists of the crawlers of a list, concatenated
CollectPostOrderChildren(tree, list) ==
    IF list = <<>> THEN <<>>
    ELSE CollectPostOrder(tree, Head(list)) \o CollectPostOrderChildren(tree, Tail(list))

\* a traversal that appends the crawler after its children
CollectPostOrder(tree, crawler) ==
    (IF ~isLeaf(tree, crawler)
     THEN CollectPostOrderChildren(tree, tree[crawler])
     ELSE <<>>) \o <<crawler>>

\* for childCrawler in crawler.children(): result += __collectCrawlers(childCrawler)
collectChildren(tree, list) ==
    IF list = <<>> THEN <<>>
    ELSE collectCrawlers(tree, Head(list)) \o collectChildren(tree, Tail(list))

\* Path.__collectCrawlers(crawler): result.append(crawler), then the
\* crawlers collected from its children unless the crawler is a leaf
collectCrawlers(tree, crawler) ==
    <<crawler>> \o
    (IF ~isLeaf(tree, crawler) THEN collectChildren(tree, tree[crawler]) ELSE <<>>)

\* the next crawler object
NewNode == Cardinality(nodes) + 1

\* a crawler object comes to exist: Path.__init__ sets __globCache to None
Constructed(cls, name, p) ==
    /\ nodes' = nodes \cup {NewNode}
    /\ nodeClass' = [n \in nodes' |-> IF n = NewNode THEN cls ELSE nodeClass[n]]
    /\ nodeType' = [n \in nodes' |-> IF n = NewNode THEN name ELSE nodeType[n]]
    /\ nodePath' = [n \in nodes' |-> IF n = NewNode THEN p ELSE nodePath[n]]
    /\ globCache' = [n \in nodes' |-> IF n = NewNode THEN [set |-> FALSE, list |-> <<>>]
                                      ELSE globCache[n]]

\* Path.createFromPath(fullPath) without a crawler type: Path.create builds
\* the crawler of the path the crawl starts from, which has no parent
CreateRoot(p, maxNodes) ==
    LET r == create(regOrder, regType, p)
    IN /\ nodes = {}
       /\ Cardinality(nodes) < maxNodes
       /\ r.outcome = "node"
       /\ Constructed(r.cls, r.name, p)
       /\ children' = [n \in nodes' |-> IF n = NewNode THEN <<>> ELSE children[n]]
       /\ UNCHANGED <<regVars, lastCreate, lastGlob, globCalls, otherVars>>

\* a new entry appears in the directory of a crawler: children() now also
\* yields the crawler Path.create builds for the entry
AddChild(parent, p, maxNodes) ==
    LET r == create(regOrder, regType, p)
    IN /\ Cardinality(nodes) < maxNodes
       /\ parent \in nodes
       /\ nodePath[parent] = "dir"
       /\ r.outcome = "node"
       /\ Constructed(r.cls, r.name, p)
       /\ children' = [n \in nodes' |->
                          IF n = NewNode THEN <<>>
                          ELSE IF n = parent THEN Append(children[n], NewNode)
                          ELSE children[n]]
       /\ UNCHANGED <<regVars, lastCreate, lastGlob, globCalls, otherVars>>

\* an entry disappears from the directory of a crawler: children() no longer
\* yields it (the crawler object lives on in the lists that hold it)
RemoveChild(parent, i) ==
    /\ parent \in nodes
    /\ i \in 1..Len(children[parent])
    /\ children' = [children EXCEPT ![parent] =
                       SubSeq(@, 1, i - 1) \o SubSeq(@, i + 1, Len(@))]
    /\ UNCHANGED <<regVars, lastCreate, nodes, nodeClass, nodeType, nodePath,
                   globCache, lastGlob, globCalls, otherVars>>

\* ------------------------------------------------------------- Path.glob
\* a filter is a registered type name (a str) or a class
FilterName(n) == [kind |-> "name", v |-> n]
FilterClass(c) == [kind |-> "class", v |-> c]

\* Path.__baseClass(baseClassOrTypeName): "-" when an assert fails
baseClass(order, types, baseClassOrTypeName) ==
    IF baseClassOrTypeName.kind = "name"
    THEN IF baseClassOrTypeName.v \in Range(order)
         THEN types[baseClassOrTypeName.v] ELSE NoClass
    ELSE IF IsSubclass(baseClassOrTypeName.v, "Path")
         THEN baseClassOrTypeName.v ELSE NoClass

\* Path.registeredSubclasses(baseClassOrTypeName), the base class resolved
registeredSubclasses(order, types, base) ==
    {types[n] : n \in {m \in Range(order) : IsSubclass(types[m], base)}}

\* isinstance(x, subClasses) for a crawler of class cls
IsInstance(cls, subClasses) == \E c \in subClasses : IsSubclass(cls, c)

\* a glob that collects on every call
NeedsCollectAlways(cache, useCache) == TRUE

\* a glob that collects only while there is no memo
NeedsCollectOnlyFirst(cache, useCache) == ~cache.set

\* if self.__globCache is None or not useCache
NeedsCollect(cache, useCache) == ~cache.set \/ ~useCache

\* self.__globCache after the first statement of glob
CacheAfter(tree, crawler, cache, useCache) ==
    IF NeedsCollect(cache, useCache)
    THEN [set |-> TRUE, list |-> collectCrawlers(tree, crawler)]
    ELSE cache

\* the crawlers of the memo that one filter lets through
FilteredBy(order, types, classOf, list, filterType) ==
    LET subClasses == registeredSubclasses(order, types,
                                           baseClass(order, types, filterType))
    IN {x \in Range(list) : IsInstance(classOf[x], subClasses)}

\* filteredCrawlers after the loop over filterTypes
FilteredCrawlers(order, types, classOf, list, filterTypes) ==
    UNION {FilteredBy(order, types, classOf, list, filterTypes[i]) :
              i \in 1..Len(filterTypes)}

\* some filter fails an assert of __baseClass
FilterRaises(order, types, filterTypes) ==
    \E i \in 1..Len(filterTypes) : baseClass(order, types, filterTypes[i]) = NoClass

\* filteredCrawlers.update(...): the crawlers of the memo that are in members
\* are inserted in the order of the memo, after those inserted before
RECURSIVE InsertAll(_, _, _)
InsertAll(inserted, list, members) ==
    IF list = <<>> THEN inserted
    ELSE InsertAll(IF Head(list) \in members /\ Head(list) \notin Range(inserted)
                   THEN Append(inserted, Head(list)) ELSE inserted,
                   Tail(list), members)

\* the crawlers of filteredCrawlers in the order of their insertion by the
\* loop over filterTypes
RECURSIVE Insertions(_, _, _, _, _)
Insertions(order, types, classOf, list, filterTypes) ==
    IF filterTypes = <<>> THEN <<>>
    ELSE InsertAll(Insertions(order, types, classOf, list,
                              SubSeq(filterTypes, 1, Len(filterTypes) - 1)),
                   list,
                   FilteredBy(order, types, classOf, list, filterTypes[Len(filterTypes)]))

\* list(aSet): the crawlers of the set in the iteration order of the set,
\* which is any order
ListsOf(aSet) ==
    {l \in [1..Cardinality(aSet) -> aSet] : \A i, j \in DOMAIN l : l[i] = l[j] => i = j}

\* the insertions of the glob call before, when it filtered the memo that a
\* call on crawler which does not collect filters again
InsertionsBefore(call, classOf, cache, crawler) ==
    IF call.outcome = "ok" /\ call.filterTypes # <<>> /\ call.node = crawler
    THEN Insertions(call.order, call.types, classOf, cache[crawler].list, call.filterTypes)
    ELSE <<>>

\* list(filteredCrawlers): the iteration order of a set is fixed by the
\* hashes of its crawlers, which are their addresses, and by the order of
\* their insertion; it is the order of the call before when that call
\* inserted the same crawlers of the same memo in the same order, and any
\* order otherwise
ListsOfFiltered(filtered, inserted, collected, before, resultBefore) ==
    IF ~collected /\ inserted # <<>> /\ inserted = before
    THEN {resultBefore}
    ELSE ListsOf(filtered)

\* crawler.glob(filterTypes, useCache)
Glob(crawler, filterTypes, useCache) ==
    LET cache == CacheAfter(children, crawler, globCache[crawler], useCache)
        call(outcome, result) ==
            [node |-> crawler, useCache |-> useCache, filterTypes |-> filterTypes,
             outcome |-> outcome, result |-> result,
             before |-> globCache[crawler],
             fresh |-> collectCrawlers(children, crawler),
             order |-> regOrder, types |-> regType]
    IN /\ crawler \in nodes
       /\ globCalls < MaxGlobCalls
       /\ globCalls' = globCalls + 1
       /\ globCache' = [globCache EXCEPT ![crawler] = cache]
       /\ IF filterTypes = <<>>
          THEN lastGlob' = call("ok", cache.list)
          ELSE IF FilterRaises(regOrder, regType, filterTypes)
          THEN lastGlob' = call("AssertionError", <<>>)
          ELSE \E l \in ListsOfFiltered(
                           FilteredCrawlers(regOrder, regType, nodeClass, cache.list,
                                            filterTypes),
                           Insertions(regOrder, regType, nodeClass, cache.list, filterTypes),
                           NeedsCollect(globCache[crawler], useCache),
                           InsertionsBefore(lastGlob, nodeClass, globCache, crawler),
                           lastGlob.result) :
                  lastGlob' = call("ok", l)
       /\ UNCHANGED <<regVars, lastCreate, nodes, nodeClass, nodeType, nodePath, children,
                      otherVars>>

\* ------------------------------------------------ toJson / createFromJson
\* values handed to setVar and setTag: a str, an int, a tuple and a list; the
\* payload is written as a sequence of tokens
StrValue(x) == [t |-> "str", v |-> x]
IntValue(x) == [t |-> "int", v |-> x]
TupleValue(x) == [t |-> "tuple", v |-> x]
ListValue(x) == [t |-> "list", v |-> x]

\* Crawler.setVar(name, value, isContextVar) on a crawler state: inserts or
\* overwrites, and adds the name to the context variables when asked to
setVar(c, name, value, isContextVar) ==
    [c EXCEPT !.vars = [n \in (DOMAIN c.vars) \cup {name} |->
                           IF n = name THEN value ELSE c.vars[n]],
              !.ctx = IF isContextVar THEN c.ctx \cup {name} ELSE c.ctx]

\* Crawler.setTag(name, value)
setTag(c, name, value) ==
    [c EXCEPT !.tags = [n \in (DOMAIN c.tags) \cup {name} |->
                           IF n = name THEN value ELSE c.tags[n]]]

\* Path.__init__(pathHolder): the variables derived from the path holder;
\* DpxClientPlate.__init__ adds the hard-coded plate name
PathInit(cls, p) ==
    LET base == [n \in {"filePath", "ext", "baseName", "name", "sourceDirectory"} |->
                    StrValue(<<n, p>>)]
        c0 == [cls |-> cls, vars |-> base, ctx |-> {}, tags |-> <<>>]
    IN IF cls = "DpxClientPlate" THEN setVar(c0, "plateName", StrValue(<<"plate">>), FALSE)
       ELSE c0

\* the path a 'filePath' variable names
PathOf(value) == value.v[2]

\* a serialization that writes every value as it is
JsonValueIdentity(value) == value

\* json.dumps then json.loads of one value: a tuple is written as an array
\* and read back as a list
JsonValue(value) == IF value.t = "tuple" THEN ListValue(value.v) ELSE value

\* json.loads(c.toJson()): the three members of the serialized crawler
toJson(c) ==
    [vars |-> [n \in DOMAIN c.vars |-> JsonValue(c.vars[n])],
     contextVarNames |-> c.ctx,
     tags |-> [n \in DOMAIN c.tags |-> JsonValue(c.tags[n])]]

RECURSIVE SetAllVars(_, _, _)
\* for varName, varValue in contents["vars"].items(): crawler.setVar(...)
SetAllVars(c, contents, names) ==
    IF names = {} THEN c
    ELSE LET n == CHOOSE x \in names : TRUE
         IN SetAllVars(setVar(c, n, contents.vars[n], n \in contents.contextVarNames),
                       contents, names \ {n})

RECURSIVE SetAllTags(_, _, _)
\* for tagName, tagValue in contents["tags"].items(): crawler.setTag(...)
SetAllTags(c, contents, names) ==
    IF names = {} THEN c
    ELSE LET n == CHOOSE x \in names : TRUE
         IN SetAllTags(setTag(c, n, contents.tags[n]), contents, names \ {n})

\* Path.createFromJson(jsonContents) on the registry (order, types)
createFromJson(order, types, contents) ==
    IF "type" \notin DOMAIN contents.vars \/ "filePath" \notin DOMAIN contents.vars
    THEN [outcome |-> "KeyError"]
    ELSE IF contents.vars["type"].t # "str" \/ contents.vars["type"].v[1] \notin Range(order)
    THEN [outcome |-> "KeyError"]
    ELSE LET cls == types[contents.vars["type"].v[1]]
             p == PathOf(contents.vars["filePath"])
         IN IF Construct(cls, p) = "raise" THEN [outcome |-> "raise"]
            ELSE [outcome |-> "node",
                  node |-> SetAllTags(SetAllVars(PathInit(cls, p), contents,
                                                 DOMAIN contents.vars),
                                      contents, DOMAIN contents.tags)]

NoCrawler == [cls |-> NoClass, vars |-> <<>>, ctx |-> {}, tags |-> <<>>]

\* Path.create(pathHolder) builds the crawler of the serialization specification
JsonCreate(p) ==
    LET r == create(regOrder, regType, p)
    IN /\ jsonCrawler = NoCrawler
       /\ r.outcome = "node"
       /\ jsonCrawler' = setVar(PathInit(r.cls, p), "type", StrValue(<<r.name>>), FALSE)
       /\ UNCHANGED <<regVars, lastCreate, treeVars, lastClone, lastFromPath, versionVars>>

\* crawler.setVar(name, value, isContextVar), for at most maxVars variables
\* beyond the ones the constructor sets
JsonSetVar(name, value, isContextVar, maxVars) ==
    /\ jsonCrawler # NoCrawler
    /\ name \in DOMAIN jsonCrawler.vars \/ Cardinality(DOMAIN jsonCrawler.vars) < 6 + maxVars
    /\ jsonCrawler' = setVar(jsonCrawler, name, value, isContextVar)
    /\ UNCHANGED <<regVars, lastCreate, treeVars, lastClone, lastFromPath, versionVars>>

\* crawler.setTag(name, value), for at most maxTags tags
JsonSetTag(name, value, maxTags) ==
    /\ jsonCrawler # NoCrawler
    /\ name \in DOMAIN jsonCrawler.tags \/ Cardinality(DOMAIN jsonCrawler.tags) < maxTags
    /\ jsonCrawler' = setTag(jsonCrawler, name, value)
    /\ UNCHANGED <<regVars, lastCreate, treeVars, lastClone, lastFromPath, versionVars>>

\* crawler.clone(): Path.createFromJson(self.toJson())
Clone ==
    /\ jsonCrawler # NoCrawler
    /\ lastClone' = [of |-> jsonCrawler,
                     result |-> createFromJson(regOrder, regType, toJson(jsonCrawler))]
    /\ UNCHANGED <<regVars, lastCreate, treeVars, jsonCrawler, lastFromPath, versionVars>>

\* ------------------------------------------------- Path.createFromPath
\* the crawlerType argument left at its default
NoType == "None"

\* a direct construction that asks the test of the named type first
ExplicitCreateTested(types, p, crawlerType) ==
    IF Test(types[crawlerType], p) # "true"
    THEN CreateResult("AssertionError", NoName, NoClass, p, <<crawlerType>>, <<>>)
    ELSE CreateResult("node", crawlerType, types[crawlerType], p,
                      <<crawlerType>>, <<crawlerType>>)

\* result = crawlerClass(PathHolder(fullPath), parentCrawler);
\* result.setVar('type', crawlerType): an exception of the constructor is
\* not caught
ExplicitCreate(types, p, crawlerType) ==
    IF Construct(types[crawlerType], p) = "raise"
    THEN CreateResult("raise", NoName, NoClass, p, <<>>, <<crawlerType>>)
    ELSE CreateResult("node", crawlerType, types[crawlerType], p, <<>>, <<crawlerType>>)

\* Path.createFromPath(fullPath, crawlerType) on the registry (order, types):
\* None and the empty string are falsy
createFromPath(order, types, p, crawlerType) ==
    IF crawlerType # NoType /\ crawlerType # ""
    THEN IF crawlerType \notin Range(order)
         THEN \* assert crawlerClass, "Invalid crawler type {} for {}"
              CreateResult("AssertionError", NoName, NoClass, p, <<>>, <<>>)
         ELSE ExplicitCreate(types, p, crawlerType)
    ELSE create(order, types, p)

\* a Path.createFromPath call whose result is dropped by the caller
CreateFromPath(p, crawlerType) ==
    /\ lastFromPath' = [call |-> createFromPath(regOrder, regType, p, crawlerType),
                        crawlerType |-> crawlerType,
                        order |-> regOrder, types |-> regType]
    /\ UNCHANGED <<regVars, lastCreate, treeVars, jsonVars, versionVars>>

\* ---------------------------------------------------- strings and paths
\* a path is the sequence of its characters; os.sep on a posix system
Sep == "/"
Digits == <<"0", "1", "2", "3", "4", "5", "6", "7", "8", "9">>

\* s.startswith(prefix)
StartsWith(s, prefix) ==
    Len(prefix) <= Len(s) /\ SubSeq(s, 1, Len(prefix)) = prefix

\* s[n:]
SliceFrom(s, n) == SubSeq(s, n + 1, Len(s))

\* s.rfind(ch) + 1: the position of the last ch in s, 0 without one
RFind(s, ch) ==
    LET hits == {i \in 1..Len(s) : s[i] = ch}
    IN IF hits = {} THEN 0 ELSE CHOOSE i \in hits : \A j \in hits : j <= i

\* s.rstrip('/')
RECURSIVE RStripSep(_)
RStripSep(s) ==
    IF s # <<>> /\ s[Len(s)] = Sep THEN RStripSep(SubSeq(s, 1, Len(s) - 1)) ELSE s

\* os.path.dirname(p)
dirname(p) ==
    LET head == SubSeq(p, 1, RFind(p, Sep))
    IN IF \E i \in 1..Len(head) : head[i] # Sep THEN RStripSep(head) ELSE head

\* os.path.basename(p)
basename(p) == SliceFrom(p, RFind(p, Sep))

\* os.path.join(a, b) for a relative b
join(a, b) == IF a = <<>> \/ a[Len(a)] = Sep THEN a \o b ELSE a \o <<Sep>> \o b

\* os.path.splitext(p)[-1]: from the last dot of the last component, unless
\* only dots precede it in that component
splitext(p) ==
    LET sepIndex == RFind(p, Sep)
        dotIndex == RFind(p, ".")
    IN IF dotIndex > sepIndex /\ \E i \in (sepIndex + 1)..(dotIndex - 1) : p[i] # "."
       THEN SliceFrom(p, dotIndex - 1)
       ELSE <<>>

IsDigits(s) == s # <<>> /\ \A i \in 1..Len(s) : s[i] \in {Digits[d] : d \in 1..10}
DigitValue(ch) == (CHOOSE d \in 1..10 : Digits[d] = ch) - 1

\* int(s) of a string of decimal digits
RECURSIVE int(_)
int(s) == IF s = <<>> THEN 0 ELSE int(SubSeq(s, 1, Len(s) - 1)) * 10 + DigitValue(s[Len(s)])

\* a dict and d[k] = v
EmptyDict == [k \in {} |-> 0]
DictSet(d, k, v) == [x \in DOMAIN d \cup {k} |-> IF x = k THEN v ELSE d[x]]

\* --------------------------------------------------- CreateVersion state
NoneValue == "None"
DataName == <<"d", "a", "t", "a">>
EnvJson == <<"e", "n", "v", ".", "j", "s", "o", "n">>
InfoJson == <<"i", "n", "f", "o", ".", "j", "s", "o", "n">>
DataJson == <<"d", "a", "t", "a", ".", "j", "s", "o", "n">>
IngestorConfig == <<"i", "n", "g", "e", "s", "t", "o", "r", "C", "o", "n", "f", "i", "g">>

\* a bound crawler: the target path Task.filePath gives for it and its variables
PathCrawler(target, crawlerVars) == [target |-> target, vars |-> crawlerVars]
NoPathCrawler == PathCrawler(<<>>, EmptyDict)

\* the attributes CreateVersion.__init__ sets: __assetName and __variant are
\* None, the flag is False; __version, __versionPath, __dataPath and
\* __configPath do not exist yet (attrs names the attributes that exist; node
\* is history: the crawler the attributes were resolved from)
NoPub == [loaded |-> FALSE, attrs |-> {"assetName", "variant"},
          assetName |-> NoneValue, variant |-> NoneValue,
          versionPath |-> <<>>, dataPath |-> <<>>, configPath |-> "",
          version |-> 0, node |-> NoPathCrawler]

\* a load that does not look at the flag
AlwaysReload(p) == FALSE

\* not self.__loadedPublishedData
AlreadyLoaded(p) == p.loaded

\* CreateVersion.__loadPublishData: the flag is set first, then the
\* attributes one by one; an exception leaves what was set before it
loadPublishData(p, crawlers) ==
    IF AlreadyLoaded(p) \/ crawlers = <<>>
    THEN [pub |-> p, outcome |-> "ok"]
    ELSE LET c == crawlers[1]
             hasAsset == "assetName" \in DOMAIN c.vars
             p0 == [p EXCEPT !.loaded = TRUE, !.node = c]
             p1 == IF hasAsset THEN [p0 EXCEPT !.assetName = c.vars["assetName"]] ELSE p0
             p2 == IF hasAsset THEN [p1 EXCEPT !.variant = c.vars["variant"]] ELSE p1
             versionPath == dirname(c.target)
             p3 == [p2 EXCEPT !.versionPath = versionPath,
                              !.dataPath = join(versionPath, DataName),
                              !.attrs = @ \cup {"versionPath", "dataPath"}]
             p4 == [p3 EXCEPT !.configPath = c.vars["configPath"],
                              !.attrs = @ \cup {"configPath"}]
             folder == SliceFrom(basename(versionPath), 1)
             p5 == [p4 EXCEPT !.version = int(folder), !.attrs = @ \cup {"version"}]
         IN IF hasAsset /\ "variant" \notin DOMAIN c.vars
            THEN [pub |-> p1, outcome |-> "VariableError"]
            ELSE IF "configPath" \notin DOMAIN c.vars
            THEN [pub |-> p3, outcome |-> "VariableError"]
            ELSE IF ~IsDigits(folder)
            THEN [pub |-> p4, outcome |-> "ValueError"]
            ELSE [pub |-> p5, outcome |-> "ok"]

\* the attribute each accessor returns: variant() returns self.__assetName
AccessorAttr(name) == IF name = "variant" THEN "assetName" ELSE name

AccessorNames == {"version", "variant", "assetName", "versionPath", "dataPath", "configPath"}

AccessResult(outcome, str, chars, num) ==
    [outcome |-> outcome, str |-> str, chars |-> chars, num |-> num]

\* the read of the attribute an accessor returns, after the load ld
attribute(ld, name) ==
    IF ld.outcome # "ok" THEN AccessResult(ld.outcome, "", <<>>, 0)
    ELSE IF AccessorAttr(name) \notin ld.pub.attrs
    THEN AccessResult("AttributeError", "", <<>>, 0)
    ELSE CASE AccessorAttr(name) = "version" -> AccessResult("value", "", <<>>, ld.pub.version)
           [] AccessorAttr(name) = "versionPath" ->
                 AccessResult("value", "", ld.pub.versionPath, 0)
           [] AccessorAttr(name) = "dataPath" -> AccessResult("value", "", ld.pub.dataPath, 0)
           [] AccessorAttr(name) = "configPath" ->
                 AccessResult("value", ld.pub.configPath, <<>>, 0)
           [] OTHER -> AccessResult("value", ld.pub.assetName, <<>>, 0)

accessed(ld, name) == [pub |-> ld.pub, res |-> attribute(ld, name)]

\* version(), variant(), assetName(), versionPath(), dataPath(), configPath():
\* self.__loadPublishData() and then the read of the attribute
accessor(p, crawlers, name) == accessed(loadPublishData(p, crawlers), name)

\* the task is given its crawlers
Bind(crawlers) ==
    /\ pathCrawlers' = crawlers
    /\ UNCHANGED <<pathVars, pub, cvFiles, cvInfo, heap, callerRefs, disk, published,
                   lastAdd, addLog, lastMeta, lastAccess, lastPerform>>

\* crawler.setVar(name, value) on a bound crawler
SetCrawlerVar(i, name, value) ==
    /\ i \in 1..Len(pathCrawlers)
    /\ pathCrawlers' = [pathCrawlers EXCEPT ![i].vars = DictSet(@, name, value)]
    /\ UNCHANGED <<pathVars, pub, cvFiles, cvInfo, heap, callerRefs, disk, published,
                   lastAdd, addLog, lastMeta, lastAccess, lastPerform>>

\* the state after an accessor call that ended as a
Accessed(a, name) ==
    /\ pub' = a.pub
    /\ lastAccess' = [flip |-> ~lastAccess.flip, name |-> name, res |-> a.res]
    /\ UNCHANGED <<pathVars, pathCrawlers, cvFiles, cvInfo, heap, callerRefs, disk,
                   published, lastAdd, addLog, lastMeta, lastPerform>>

\* one call of an accessor
Accessor(name) == Accessed(accessor(pub, pathCrawlers, name), name)

\* ------------------------------------------------- CreateVersion.addFile
\* the dict objects: a new object takes the smallest free identity
Alloc(h) == CHOOSE i \in 1..(Cardinality(DOMAIN h) + 1) : i \notin DOMAIN h
Store(h, id, d) == [x \in DOMAIN h \cup {id} |-> IF x = id THEN d ELSE h[x]]

\* an object nobody refers to is freed
Collect(h, files, refs) ==
    [x \in {i \in DOMAIN h : i \in refs \/ \E f \in DOMAIN files : files[f] = i} |-> h[x]]

\* the same object under the same identity
dictAlias(h, id) == [heap |-> h, id |-> id]

\* dict(metadata): a new object with the same items
dictCopy(h, id) == [heap |-> Store(h, Alloc(h), h[id]), id |-> Alloc(h)]

\* os.stat(filePath).st_size: a trailing separator names the directory itself
Exists(dsk, filePath) == RStripSep(filePath) \in DOMAIN dsk
stat(dsk, filePath) == dsk[RStripSep(filePath)]

\* a size that is only filled in when the caller gave none
WithSizeIfMissing(d, size) == IF "size" \in DOMAIN d THEN d ELSE DictSet(d, "size", size)

\* metadata['size'] = os.stat(filePath).st_size
WithSize(d, size) == DictSet(d, "size", size)

\* if 'type' not in metadata: metadata['type'] = os.path.splitext(filePath)[-1][1:]
WithType(d, filePath) ==
    IF "type" \in DOMAIN d THEN d ELSE DictSet(d, "type", SliceFrom(splitext(filePath), 1))

\* a dictionary that forgets the other files
RecordOnlyFile(files, filePath, id) == [f \in {filePath} |-> id]

\* self.__files[filePath] = metadata
RecordFile(files, filePath, id) == DictSet(files, filePath, id)

AddResult(outcome, p, files, h) == [outcome |-> outcome, pub |-> p, files |-> files, heap |-> h]

\* addFile after its call a of self.dataPath()
addFileUnder(a, files, h, dsk, filePath, metadataId) ==
    IF a.res.outcome # "value"
    THEN AddResult(a.res.outcome, a.pub, files, h)
    ELSE IF ~StartsWith(filePath, a.res.chars \o <<Sep>>)
    THEN AddResult("FileNotUnderDataDirectoryError", a.pub, files, h)
    ELSE LET c == dictCopy(h, metadataId)
         IN IF ~Exists(dsk, filePath)
            THEN AddResult("OSError", a.pub, files, c.heap)
            ELSE AddResult("ok", a.pub, RecordFile(files, filePath, c.id),
                           Store(c.heap, c.id,
                                 WithType(WithSize(c.heap[c.id], stat(dsk, filePath)),
                                          filePath)))

\* CreateVersion.addFile(filePath, metadata) where metadata is the dict
\* object metadataId of the heap h
addFile(p, crawlers, files, h, dsk, filePath, metadataId) ==
    addFileUnder(accessor(p, crawlers, "dataPath"), files, h, dsk, filePath, metadataId)

\* what the task has recorded, by value
Recorded(files, h) == [f \in DOMAIN files |-> h[files[f]]]

\* the state after an addFile call that ended as r, the caller holding refs
Added(r, filePath, metadata, refs) ==
    /\ pub' = r.pub
    /\ cvFiles' = r.files
    /\ heap' = Collect(r.heap, r.files, refs)
    /\ callerRefs' = refs
    /\ lastAdd' = [flip |-> ~lastAdd.flip, path |-> filePath, metadata |-> metadata,
                   outcome |-> r.outcome,
                   stat |-> IF Exists(disk, filePath) THEN stat(disk, filePath) ELSE 0,
                   again |-> /\ lastAdd.outcome = "ok"
                             /\ lastAdd.path = filePath
                             /\ lastAdd.metadata = metadata
                             /\ Exists(disk, filePath)
                             /\ lastAdd.stat = stat(disk, filePath)]
    /\ addLog' = IF r.outcome = "ok"
                 THEN DictSet(addLog, filePath, r.heap[r.files[filePath]])
                 ELSE addLog
    /\ UNCHANGED <<pathVars, pathCrawlers, cvInfo, disk, published, lastMeta, lastAccess,
                   lastPerform>>

\* one addFile call with a dict the caller built for it (metadata=None is
\* the empty dict); keep tells whether the caller holds on to its dict
AddFile(filePath, metadata, keep, maxDicts) ==
    /\ Cardinality(DOMAIN heap) + 2 <= maxDicts
    /\ Added(addFile(pub, pathCrawlers, cvFiles, Store(heap, Alloc(heap), metadata), disk,
                     filePath, Alloc(heap)),
             filePath, metadata,
             IF keep THEN callerRefs \cup {Alloc(heap)} ELSE callerRefs)

\* a lookup by file name, whatever the directory
fileMetadataByName(files, h, filePath) ==
    IF \E f \in DOMAIN files : basename(f) = basename(filePath)
    THEN [outcome |-> "value",
          copy |-> dictCopy(h, files[CHOOSE f \in DOMAIN files :
                                        basename(f) = basename(filePath)])]
    ELSE [outcome |-> "MetadataNotFoundError", copy |-> dictAlias(h, 0)]

\* CreateVersion.fileMetadata(filePath): a copy of the recorded dict, or
\* MetadataNotFoundError
fileMetadata(files, h, filePath) ==
    IF filePath \in DOMAIN files
    THEN [outcome |-> "value", copy |-> dictCopy(h, files[filePath])]
    ELSE [outcome |-> "MetadataNotFoundError", copy |-> dictAlias(h, 0)]

\* the state after a fileMetadata call that ended as r, the caller holding refs
Returned(r, filePath, refs) ==
    /\ heap' = Collect(r.copy.heap, cvFiles, refs)
    /\ callerRefs' = refs
    /\ lastMeta' = [flip |-> ~lastMeta.flip, path |-> filePath, outcome |-> r.outcome,
                    value |-> IF r.outcome = "value" THEN r.copy.heap[r.copy.id]
                              ELSE EmptyDict]
    /\ UNCHANGED <<pathVars, pathCrawlers, pub, cvFiles, cvInfo, disk, published, lastAdd,
                   addLog, lastAccess, lastPerform>>

\* one fileMetadata call
FileMetadata(filePath, keep, maxDicts) ==
    /\ Cardinality(DOMAIN heap) + 1 <= maxDicts
    /\ Returned(fileMetadata(cvFiles, heap, filePath), filePath,
                IF keep /\ filePath \in DOMAIN cvFiles
                THEN callerRefs \cup {Alloc(heap)} ELSE callerRefs)

\* the caller changes a dict it holds: d[key] = value
CallerMutate(id, key, value) ==
    /\ id \in callerRefs
    /\ heap' = Store(heap, id, DictSet(heap[id], key, value))
    /\ UNCHANGED <<pathVars, pathCrawlers, pub, cvFiles, cvInfo, callerRefs, disk,
                   published, lastAdd, addLog, lastMeta, lastAccess, lastPerform>>

\* a file below the data directory is rewritten with another size
DiskWrite(filePath, size) ==
    /\ filePath \in DOMAIN disk
    /\ disk[filePath] # size
    /\ disk' = [disk EXCEPT ![filePath] = size]
    /\ UNCHANGED <<pathVars, pathCrawlers, pub, cvFiles, cvInfo, heap, callerRefs,
                   published, lastAdd, addLog, lastMeta, lastAccess, lastPerform>>

\* CreateVersion.addInfo(key, value)
AddInfo(key, value) ==
    /\ cvInfo' = DictSet(cvInfo, key, value)
    /\ UNCHANGED <<pathVars, pathCrawlers, pub, cvFiles, heap, callerRefs, disk, published,
                   lastAdd, addLog, lastMeta, lastAccess, lastPerform>>

\* ------------------------------------------------ CreateVersion._perform
\* a slice that keeps the separator
RelativePathWithSep(filePath, versionPath) == SliceFrom(filePath, Len(versionPath))

\* filePath[len(self.versionPath()) + 1:]
RelativePath(filePath, versionPath) == SliceFrom(filePath, Len(versionPath) + 1)

\* totalSize += metadata['size'] over self.__files.items()
RECURSIVE TotalSize(_)
TotalSize(recorded) ==
    IF DOMAIN recorded = {} THEN 0
    ELSE LET f == CHOOSE x \in DOMAIN recorded : TRUE
         IN recorded[f]["size"] +
            TotalSize([x \in DOMAIN recorded \ {f} |-> recorded[x]])

\* a size that respects what addInfo set before
KeepInfoSize(info, totalSize) ==
    IF "size" \in DOMAIN info THEN info ELSE DictSet(info, "size", totalSize)

\* self.addInfo('size', totalSize)
AddInfoSize(info, totalSize) == DictSet(info, "size", totalSize)

\* the run of one _perform: st holds the attributes, the info, what is
\* published, the paths written by this run and how the run stands
Failed(st, outcome) == [st EXCEPT !.outcome = outcome]
Wrote(st, path, content) ==
    [st EXCEPT !.published = DictSet(@, path, content), !.wrote = Append(@, path)]

\* CreateVersion.__writeEnv, ld being the load its accessor call makes
writeEnv(st, ld, ioFails) ==
    LET vp == attribute(ld, "versionPath")
    IN IF vp.outcome # "value" THEN Failed(st, vp.outcome)
       ELSE IF ioFails THEN Failed(st, "IOError")
       ELSE Wrote(st, join(vp.chars, EnvJson), "environ")

\* CreateVersion.__writeInfo: the size is set before version() is called
writeInfo(st, ld, recorded, ioFails, user, totalTime) ==
    LET st1 == [st EXCEPT !.info = AddInfoSize(@, TotalSize(recorded))]
        v == attribute(ld, "version")
        st2 == [st1 EXCEPT !.info = DictSet(DictSet(DictSet(@, "version", v.num),
                                                    "user", user),
                                            "totalTime", totalTime)]
        an == attribute(ld, "assetName")
        va == attribute(ld, "variant")
        st3 == IF an.str # NoneValue
               THEN [st2 EXCEPT !.info = DictSet(DictSet(@, "assetName", an.str),
                                                 "variant", va.str)]
               ELSE st2
        vp == attribute(ld, "versionPath")
    IN IF v.outcome # "value" THEN Failed(st1, v.outcome)
       ELSE IF vp.outcome # "value" THEN Failed(st3, vp.outcome)
       ELSE IF ioFails THEN Failed(st3, "IOError")
       ELSE Wrote(st3, join(vp.chars, InfoJson), st3.info)

\* CreateVersion.__writeData
writeData(st, ld, recorded, ioFails) ==
    LET vp == attribute(ld, "versionPath")
        keys == {RelativePath(f, vp.chars) : f \in DOMAIN recorded}
        filesData == [k \in keys |->
                        recorded[CHOOSE f \in DOMAIN recorded :
                                    RelativePath(f, vp.chars) = k]]
    IN IF vp.outcome # "value" THEN Failed(st, vp.outcome)
       ELSE IF ioFails THEN Failed(st, "IOError")
       ELSE Wrote(st, join(vp.chars, DataJson), filesData)

\* CreateVersion.__copyIngestorConfig: shutil.copytree refuses a destination
\* that exists
copyIngestorConfig(st, ld, ioFails) ==
    LET cp == attribute(ld, "configPath")
        vp == attribute(ld, "versionPath")
    IN IF cp.outcome # "value" THEN Failed(st, cp.outcome)
       ELSE IF vp.outcome # "value" THEN Failed(st, vp.outcome)
       ELSE IF join(vp.chars, IngestorConfig) \in DOMAIN st.published
       THEN Failed(st, "FileExistsError")
       ELSE IF ioFails THEN Failed(st, "IOError")
       ELSE Wrote(st, join(vp.chars, IngestorConfig), cp.str)

\* a step of _perform: its first accessor call makes the load ld, which
\* leaves the attributes ld.pub
performStepLoaded(step, st, ld, recorded, ioFails, user, totalTime) ==
    CASE step = "writeEnv" -> writeEnv(st, ld, ioFails)
      [] step = "writeInfo" -> writeInfo(st, ld, recorded, ioFails, user, totalTime)
      [] step = "writeData" -> writeData(st, ld, recorded, ioFails)
      [] OTHER -> copyIngestorConfig(st, ld, ioFails)

WithPub(st, p) == [st EXCEPT !.pub = p]

stepAfterLoad(step, st, ld, recorded, ioFails, user, totalTime) ==
    performStepLoaded(step, WithPub(st, ld.pub), ld, recorded, ioFails, user, totalTime)

performStep(step, st, crawlers, recorded, ioFails, user, totalTime) ==
    stepAfterLoad(step, st, loadPublishData(st.pub, crawlers), recorded, ioFails, user,
                  totalTime)

\* a body that writes the manifest before the summary
PerformOrderDataFirst == <<"writeEnv", "writeData", "writeInfo", "copyIngestorConfig">>

\* the body of _perform
PerformOrder == <<"writeEnv", "writeInfo", "writeData", "copyIngestorConfig">>

\* the steps from the i-th on; the failAt-th step meets an I/O error (none for 0)
RECURSIVE RunSteps(_, _, _, _, _, _, _, _)
RunSteps(steps, i, st, crawlers, recorded, failAt, user, totalTime) ==
    IF i > Len(steps) \/ st.outcome # "ok" THEN st
    ELSE RunSteps(steps, i + 1,
                  performStep(steps[i], st, crawlers, recorded, failAt = i, user, totalTime),
                  crawlers, recorded, failAt, user, totalTime)

\* CreateVersion._perform
perform(p, crawlers, info, recorded, pubd, failAt, user, totalTime) ==
    RunSteps(PerformOrder, 1,
             [pub |-> p, info |-> info, published |-> pubd, wrote |-> <<>>,
              outcome |-> "ok"],
             crawlers, recorded, failAt, user, totalTime)

\* the state after a _perform call that ended as st
Performed(st) ==
    /\ pub' = st.pub
    /\ cvInfo' = st.info
    /\ published' = st.published
    /\ lastPerform' = [calls |-> lastPerform.calls + 1, outcome |-> st.outcome,
                       wrote |-> st.wrote,
                       sizeSet |-> "size" \in DOMAIN cvInfo]
    /\ UNCHANGED <<pathVars, pathCrawlers, cvFiles, heap, callerRefs, disk, lastAdd, addLog,
                   lastMeta, lastAccess>>

\* one _perform call, of at most maxCalls
Perform(failAt, user, totalTime, maxCalls) ==
    /\ lastPerform.calls < maxCalls
    /\ Performed(perform(pub, pathCrawlers, cvInfo, Recorded(cvFiles, heap), published,
                         failAt, user, totalTime))

\* the paths of the publish specifications: the version directory v007,
\* the file a crawler is bound with, files below data, the data directory
\* with a trailing separator, a sibling directory and a file that is not there
VersionPath == <<"/", "v", "0", "0", "7">>
TargetPath == VersionPath \o <<"/", "i">>
DataPath == VersionPath \o <<"/", "d", "a", "t", "a">>
FileA == DataPath \o <<"/", "a", ".", "x">>
FileB == DataPath \o <<"/", "b">>
FileHidden == DataPath \o <<"/", ".", "h">>
DataPathSep == DataPath \o <<"/">>
SiblingFile == VersionPath \o <<"/", "d", "a", "t", "a", "2", "/", "a", ".", "x">>
MissingFile == DataPath \o <<"/", "m", ".", "x">>
DirSize == 40
InitialDisk ==
    [f \in {DataPath, FileA, FileB, FileHidden, SiblingFile} |->
        CASE f = DataPath -> DirSize [] f = FileB -> 5 [] OTHER -> 10]

NoAdd == [flip |-> FALSE, path |-> <<>>, metadata |-> EmptyDict, outcome |-> "-",
          stat |-> 0, again |-> FALSE]
NoMeta == [flip |-> FALSE, path |-> <<>>, outcome |-> "-", value |-> EmptyDict]
NoAccess == [flip |-> FALSE, name |-> "-", res |-> AccessResult("-", "", <<>>, 0)]
NoPerform == [calls |-> 0, outcome |-> "-", wrote |-> <<>>, sizeSet |-> FALSE]

\* a task as CreateVersion.__init__ leaves it, no crawler bound, nothing
\* published, the produced files on disk
InitVersion ==
    /\ pathCrawlers = <<>>
    /\ pub = NoPub
    /\ cvFiles = EmptyDict
    /\ cvInfo = EmptyDict
    /\ heap = EmptyDict
    /\ callerRefs = {}
    /\ disk = InitialDisk
    /\ published = EmptyDict
    /\ lastAdd = NoAdd
    /\ addLog = EmptyDict
    /\ lastMeta = NoMeta
    /\ lastAccess = NoAccess
    /\ lastPerform = NoPerform

NoClone == [of |-> NoCrawler, result |-> [outcome |-> "-"]]
NoFromPath == [call |-> CreateResult("-", NoName, NoClass, NoPath, <<>>, <<>>),
               crawlerType |-> NoType, order |-> <<>>, types |-> <<>>]

\* no crawler was serialized, no createFromPath call was made
InitOther ==
    /\ jsonCrawler = NoCrawler
    /\ lastClone = NoClone
    /\ lastFromPath = NoFromPath
    /\ InitVersion

NoCreate == [call |-> CreateResult("-", NoName, NoClass, NoPath, <<>>, <<>>),
             order |-> <<>>, types |-> <<>>, log |-> <<>>]
NoRegister == [name |-> NoName, cls |-> NoClass, outcome |-> "-"]
NoGlob == [node |-> 0, useCache |-> TRUE, filterTypes |-> <<>>, outcome |-> "-",
           result |-> <<>>, before |-> [set |-> FALSE, list |-> <<>>],
           fresh |-> <<>>, order |-> <<>>, types |-> <<>>]

\* the registry is empty at import time, no crawler exists
Init ==
    /\ regOrder = <<>>
    /\ regType = <<>>
    /\ regLog = <<>>
    /\ lastRegister = NoRegister
    /\ lastCreate = NoCreate
    /\ nodes = {}
    /\ nodeClass = <<>>
    /\ nodeType = <<>>
    /\ nodePath = <<>>
    /\ children = <<>>
    /\ globCache = <<>>
    /\ lastGlob = NoGlob
    /\ globCalls = 0
    /\ InitOther

Next ==
    \/ \E name \in Names, cls \in Classes : Register(name, cls, MaxRegisterCalls)
    \/ \E p \in Paths : Create(p)

\* the classifier: register calls and create calls
Spec == Init /\ [][Next]_vars

\* the registry after the crawler modules were imported: each module ends
\* with a register call
InitGlob ==
    /\ regOrder = <<"a", "b", "c">>
    /\ regType = [n \in {"a", "b", "c"} |->
                     CASE n = "a" -> "File" [] n = "b" -> "Dpx" [] OTHER -> "Directory"]
    /\ regLog = <<"a", "b", "c">>
    /\ lastRegister = [name |-> "c", cls |-> "Directory", outcome |-> "ok"]
    /\ lastCreate = NoCreate
    /\ nodes = {}
    /\ nodeClass = <<>>
    /\ nodeType = <<>>
    /\ nodePath = <<>>
    /\ children = <<>>
    /\ globCache = <<>>
    /\ lastGlob = NoGlob
    /\ globCalls = 0
    /\ InitOther

\* paths and filter lists of the glob specification
GlobPaths == {"dir", "plate"}
GlobFilterLists ==
    {<<>>, <<FilterName("b"), FilterClass("File")>>}

NextGlob ==
    \/ \E p \in GlobPaths : CreateRoot(p, MaxNodes)
    \/ \E parent \in nodes, p \in GlobPaths : AddChild(parent, p, MaxNodes)
    \/ \E parent \in nodes, i \in 1..MaxNodes : RemoveChild(parent, i)
    \/ \E crawler \in nodes, filterTypes \in GlobFilterLists, useCache \in BOOLEAN :
          Glob(crawler, filterTypes, useCache)

\* crawler trees that grow and shrink under the imported registry, with
\* glob calls on their crawlers
SpecGlob == InitGlob /\ [][NextGlob]_vars

\* names, classes, paths and filter lists of the filter specification
FilterNames == {"a", "b"}
FilterClasses == {"File", "Dpx", "Directory", "Other"}
FilterPaths == {"dir", "plate"}
FilterFilterLists ==
    {<<FilterName("a")>>, <<FilterClass("File")>>,
     <<FilterClass("Dpx"), FilterClass("File")>>, <<FilterClass("Other")>>}

NextFilter ==
    \/ \E name \in FilterNames, cls \in FilterClasses :
          Register(name, cls, MaxFilterRegisterCalls)
    \/ \E p \in FilterPaths : CreateRoot(p, MaxFilterNodes)
    \/ \E parent \in nodes, p \in FilterPaths : AddChild(parent, p, MaxFilterNodes)
    \/ \E crawler \in nodes, filterTypes \in FilterFilterLists, useCache \in BOOLEAN :
          Glob(crawler, filterTypes, useCache)

\* register calls, crawlers and filtered glob calls in any order
SpecFilter == Init /\ [][NextFilter]_vars

\* names and values of the serialization specification
JsonVarNames == {"x", "y"}
JsonTagNames == {"t", "u"}
JsonValues ==
    {StrValue(<<"s">>), IntValue(<<"7">>), TupleValue(<<"1", "10">>), ListValue(<<"1", "10">>)}
JsonPaths == {"dir", "txt", "plate"}

\* the registry of the serialization specification: the imported registry
\* and the client plate crawler registered after it
InitJson ==
    /\ regOrder = <<"a", "b", "c">>
    /\ regType = [n \in {"a", "b", "c"} |->
                     CASE n = "a" -> "File" [] n = "b" -> "DpxClientPlate"
                       [] OTHER -> "Directory"]
    /\ regLog = <<"a", "b", "c">>
    /\ lastRegister = [name |-> "c", cls |-> "Directory", outcome |-> "ok"]
    /\ lastCreate = NoCreate
    /\ nodes = {}
    /\ nodeClass = <<>>
    /\ nodeType = <<>>
    /\ nodePath = <<>>
    /\ children = <<>>
    /\ globCache = <<>>
    /\ lastGlob = NoGlob
    /\ globCalls = 0
    /\ InitOther

NextJson ==
    \/ \E p \in JsonPaths : JsonCreate(p)
    \/ \E name \in JsonVarNames, value \in JsonValues, isContextVar \in BOOLEAN :
          JsonSetVar(name, value, isContextVar, MaxJsonVars)
    \/ \E name \in JsonTagNames, value \in JsonValues : JsonSetTag(name, value, MaxJsonTags)
    \/ Clone

\* one crawler whose variables and tags are set, serialized and rebuilt
SpecJson == InitJson /\ [][NextJson]_vars

\* names, classes and type arguments of the createFromPath specification
FromPathNames == {"a", "b"}
FromPathClasses == {"File", "DpxClientPlate", "Directory", "Path"}
FromPathTypes == {NoType, "", "a", "b"}

NextFromPath ==
    \/ \E name \in FromPathNames, cls \in FromPathClasses :
          Register(name, cls, MaxFromPathRegisterCalls)
    \/ \E p \in Paths, crawlerType \in FromPathTypes : CreateFromPath(p, crawlerType)

\* register calls and createFromPath calls in any order
SpecFromPath == Init /\ [][NextFromPath]_vars

\* the crawler the publish specifications bind: its target lies in v007
BoundCrawler == PathCrawler(TargetPath, [k \in {"configPath"} |-> "cfg"])

\* paths of the addFile specification
AddFilePaths == {FileA, FileB, DataPathSep, DataPath, SiblingFile, MissingFile}
DiskSizes == {10, 20}

NextAddFile ==
    \/ Bind(<<BoundCrawler>>)
    \/ \E filePath \in AddFilePaths : AddFile(filePath, EmptyDict, FALSE, MaxDicts)
    \/ \E size \in DiskSizes : DiskWrite(FileA, size)

\* addFile calls without metadata on a task, before and after its crawler is
\* bound, while a produced file is rewritten
SpecAddFile == Init /\ [][NextAddFile]_vars

\* paths and metadata of the metadata specification
MetadataPaths == {FileA, FileHidden, SiblingFile}
AddFileMetadata == {EmptyDict, [size |-> 7], [type |-> <<"t">>, note |-> <<"n">>]}

NextMetadata ==
    \/ Bind(<<BoundCrawler>>)
    \/ \E filePath \in MetadataPaths, metadata \in AddFileMetadata :
          AddFile(filePath, metadata, FALSE, MaxDicts)
    \/ \E size \in DiskSizes : DiskWrite(FileA, size)

\* addFile calls with metadata of the caller
SpecMetadata == Init /\ [][NextMetadata]_vars

\* inputs of the aliasing specification
AliasPaths == {FileA, FileB}
AliasMetadata == {EmptyDict, [note |-> <<"n">>]}
AliasItems == {<<"size", 99>>, <<"note", <<"m">>>>}

NextAlias ==
    \/ Bind(<<BoundCrawler>>)
    \/ \E metadata \in AliasMetadata, keep \in BOOLEAN :
          AddFile(FileA, metadata, keep, MaxAliasDicts)
    \/ \E filePath \in AliasPaths, keep \in BOOLEAN : FileMetadata(filePath, keep, MaxAliasDicts)
    \/ \E id \in 1..MaxAliasDicts, item \in AliasItems : CallerMutate(id, item[1], item[2])

\* a caller that keeps the dicts it passes and receives, and changes them
SpecAlias == Init /\ [][NextAlias]_vars

\* paths and metadata of the fileMetadata specification: a file, a file of
\* the same name outside the data directory, a file that does not exist
LookupPaths == {FileA, SiblingFile, MissingFile}
LookupMetadata == {EmptyDict, [note |-> <<"n">>]}

NextLookup ==
    \/ Bind(<<BoundCrawler>>)
    \/ \E filePath \in LookupPaths, metadata \in LookupMetadata :
          AddFile(filePath, metadata, FALSE, MaxDicts)
    \/ \E filePath \in LookupPaths : FileMetadata(filePath, FALSE, MaxDicts)
    \/ \E size \in DiskSizes : DiskWrite(FileA, size)

\* fileMetadata calls between addFile calls that succeed and that fail
SpecLookup == Init /\ [][NextLookup]_vars

\* inputs of the publish specification
PublishPaths == {FileA, FileB}
PublishInfo == {<<"size", 999>>}
PublishUsers == {"u"}
PublishTimes == {0}

NextPublish ==
    \/ Bind(<<BoundCrawler>>)
    \/ \E filePath \in PublishPaths : AddFile(filePath, EmptyDict, FALSE, MaxDicts)
    \/ \E item \in PublishInfo : AddInfo(item[1], item[2])
    \/ \E failAt \in 0..Len(PerformOrder), user \in PublishUsers, totalTime \in PublishTimes :
          Perform(failAt, user, totalTime, MaxPerformCalls)

\* files are added, info is set and the version is published, with an I/O
\* error at any of the writes
SpecPublish == Init /\ [][NextPublish]_vars

\* the crawlers of the load specification: targets in the version folders
\* v007, v012 and vx, with and without asset variables and configPath
TargetV012 == <<"/", "j", "/", "v", "0", "1", "2", "/", "i">>
TargetVx == <<"/", "v", "x", "/", "i">>
LoadCrawlers ==
    {PathCrawler(TargetPath, [k \in {"assetName", "variant", "configPath"} |->
                                CASE k = "assetName" -> "asset" [] k = "variant" -> "var"
                                  [] OTHER -> "cfg"]),
     PathCrawler(TargetV012, [k \in {"configPath"} |-> "cfg2"]),
     PathCrawler(TargetVx, [k \in {"configPath"} |-> "cfg"]),
     PathCrawler(TargetPath, [k \in {"assetName", "configPath"} |->
                                IF k = "assetName" THEN "asset" ELSE "cfg"]),
     PathCrawler(TargetV012, EmptyDict)}
LoadVars == {<<"configPath", "cfg3">>}

\* one more crawler is bound to the task, of at most maxCrawlers
BindCrawler(c, maxCrawlers) ==
    /\ Len(pathCrawlers) < maxCrawlers
    /\ Bind(Append(pathCrawlers, c))

\* the task is run on no crawlers
Unbind ==
    /\ pathCrawlers # <<>>
    /\ Bind(<<>>)

NextLoad ==
    \/ \E c \in LoadCrawlers : BindCrawler(c, MaxCrawlers)
    \/ Unbind
    \/ \E item \in LoadVars : SetCrawlerVar(1, item[1], item[2])
    \/ \E name \in AccessorNames : Accessor(name)

\* the accessors are called while crawlers are bound, rebound and changed
SpecLoad == Init /\ [][NextLoad]_vars

\* ----------------------------------------------------- classifier claims
\* index of x in s (0 when absent)
IndexOf(s, x) ==
    IF x \in Range(s) THEN CHOOSE i \in 1..Len(s) : s[i] = x /\ \A j \in 1..(i-1) : s[j] # x
    ELSE 0

IsPrefix(s, t) == Len(s) <= Len(t) /\ \A i \in 1..Len(s) : s[i] = t[i]

\* names of a call log in the order of their first occurrence
RECURSIVE FirstOccurrences(_)
FirstOccurrences(log) ==
    IF log = <<>> THEN <<>>
    ELSE LET init == FirstOccurrences(SubSeq(log, 1, Len(log) - 1))
             last == log[Len(log)]
         IN IF last \in Range(init) THEN init ELSE Append(init, last)

\* position of the latest occurrence of name in a call log (0 when absent)
LastIndexOf(log, name) ==
    IF name \in Range(log)
    THEN CHOOSE i \in 1..Len(log) : log[i] = name /\ \A j \in (i+1)..Len(log) : log[j] # name
    ELSE 0

\* the registered names whose test returns true for the path of the last create call
Accepting == {n \in Range(lastCreate.order) :
                 Test(lastCreate.types[n], lastCreate.call.path) = "true"}

\* the precedence order of the last create call, derived from the call log:
\* names by first registration, latest first
Precedence == Reverse(FirstOccurrences(lastCreate.log))

\* position in the precedence order of the first name whose test does not
\* return false (0 when every test returns false)
FirstDecisive ==
    LET prec == Precedence
        hits == {i \in 1..Len(prec) : Test(lastCreate.types[prec[i]], lastCreate.call.path) # "false"}
    IN IF hits = {} THEN 0 ELSE CHOOSE i \in hits : \A j \in hits : i <= j

\* C1 as stated: a returned crawler is built by the accepting type whose
\* register call is the most recent one, and carries that type's name.
C1_LatestRegisteredWins ==
    lastCreate.call.outcome = "node" =>
        /\ lastCreate.call.name \in Accepting
        /\ \A n \in Accepting :
              LastIndexOf(lastCreate.log, n) <= LastIndexOf(lastCreate.log, lastCreate.call.name)
        /\ lastCreate.call.cls = lastCreate.types[lastCreate.call.name]

\* C1 amended: the types are tested by first registration of their name,
\* latest first (a re-registered name keeps its slot); a returned crawler is
\* built by the class registered under the first name in that order whose
\* test returns true and its 'type' variable is that name.
C1_LatestFirstRegisteredWins ==
    lastCreate.call.outcome = "node" =>
        /\ lastCreate.call.name \in Accepting
        /\ \A n \in Accepting :
              IndexOf(FirstOccurrences(lastCreate.log), n)
                 <= IndexOf(FirstOccurrences(lastCreate.log), lastCreate.call.name)
        /\ lastCreate.call.cls = lastCreate.types[lastCreate.call.name]
        /\ IsPrefix(lastCreate.call.tested, Precedence)

\* a crawler was returned although a name registered earlier, and registered
\* again later, accepts the path too
C1_Witness ==
    /\ lastCreate.call.outcome = "node"
    /\ Cardinality(Accepting) >= 2
    /\ \E n \in Accepting :
          LastIndexOf(lastCreate.log, n) > LastIndexOf(lastCreate.log, lastCreate.call.name)

\* C2: the registry order is the order of first registration of each name; a
\* register call on a registered name replaces the class in place.
C2_RegistrationOrderPreserved ==
    /\ regOrder = FirstOccurrences(regLog)
    /\ DOMAIN regType = Range(regOrder)
    /\ lastRegister.outcome = "ok" => regType[lastRegister.name] = lastRegister.cls

\* a name was registered again after another name had been registered
C2_Witness ==
    /\ Len(regLog) = 3
    /\ regLog[1] = regLog[3]
    /\ regLog[2] # regLog[1]
    /\ lastRegister.outcome = "ok"

\* C3: when the first test that does not return false raises, create fails
\* with TestCrawlerError naming that type and the path, builds nothing and
\* tests no type of lower precedence.
C3_TestErrorPropagates ==
    LET i == FirstDecisive
    IN (/\ lastCreate.call.outcome # "-"
        /\ i > 0
        /\ Test(lastCreate.types[Precedence[i]], lastCreate.call.path) = "raise")
       => /\ lastCreate.call.outcome = "TestCrawlerError"
          /\ lastCreate.call.name = Precedence[i]
          /\ lastCreate.call.tested = SubSeq(Precedence, 1, i)
          /\ lastCreate.call.constructed = <<>>

\* a test raised while a type of lower precedence would have accepted the path
C3_Witness ==
    /\ lastCreate.call.outcome = "TestCrawlerError"
    /\ Accepting # {}
    /\ Len(lastCreate.call.tested) < Len(lastCreate.order)

\* C4: when the first type whose test returns true raises in its constructor,
\* create fails with CreateCrawlerError naming that type and the path, and
\* no other type is tested or constructed.
C4_CreateErrorPropagates ==
    LET i == FirstDecisive
    IN (/\ lastCreate.call.outcome # "-"
        /\ i > 0
        /\ Test(lastCreate.types[Precedence[i]], lastCreate.call.path) = "true"
        /\ Construct(lastCreate.types[Precedence[i]], lastCreate.call.path) = "raise")
       => /\ lastCreate.call.outcome = "CreateCrawlerError"
          /\ lastCreate.call.name = Precedence[i]
          /\ lastCreate.call.tested = SubSeq(Precedence, 1, i)
          /\ lastCreate.call.constructed = <<Precedence[i]>>

\* a constructor raised while a type of lower precedence accepts the path
\* and could be constructed
C4_Witness ==
    /\ lastCreate.call.outcome = "CreateCrawlerError"
    /\ \E n \in Accepting :
          /\ n # lastCreate.call.name
          /\ Construct(lastCreate.types[n], lastCreate.call.path) = "ok"

\* C5: create fails with the no-match error exactly when every registered
\* type's test returns false (none at all when the registry is empty); when
\* the first accepting type is constructed, create returns that crawler.
C5_NoMatchFails ==
    LET i == FirstDecisive
    IN lastCreate.call.outcome # "-" =>
        /\ (i = 0) <=> (lastCreate.call.outcome = "AssertionError")
        /\ (i = 0) => lastCreate.call.tested = Precedence
        /\ (/\ i > 0
            /\ Test(lastCreate.types[Precedence[i]], lastCreate.call.path) = "true"
            /\ Construct(lastCreate.types[Precedence[i]], lastCreate.call.path) = "ok")
           => /\ lastCreate.call.outcome = "node"
              /\ lastCreate.call.name = Precedence[i]

\* every one of at least two registered types was tested and none accepted
C5_Witness ==
    /\ lastCreate.call.outcome = "AssertionError"
    /\ Len(lastCreate.order) >= 2
    /\ Len(lastCreate.call.tested) = Len(lastCreate.order)

GlobStep == globCalls' = globCalls + 1

\* the crawlers reachable from the crawlers of S through children()
RECURSIVE Descendants(_, _)
Descendants(tree, S) ==
    LET next == S \cup UNION {Range(tree[x]) : x \in S}
    IN IF next = S THEN S ELSE Descendants(tree, next)

Subtree(tree, n) == Descendants(tree, {n})

\* position of crawler x in list r
Pos(r, x) == CHOOSE i \in 1..Len(r) : r[i] = x

\* r lists the subtree of n depth first, in pre-order: every crawler of the
\* subtree once, n first, a crawler before its descendants, the subtrees of
\* the children of a crawler in the order children() yields them
IsPreOrder(tree, n, r) ==
    /\ Range(r) = Subtree(tree, n)
    /\ Len(r) = Cardinality(Subtree(tree, n))
    /\ r[1] = n
    /\ \A x \in Subtree(tree, n) : \A d \in Subtree(tree, x) \ {x} : Pos(r, x) < Pos(r, d)
    /\ \A x \in Subtree(tree, n) : \A i, j \in 1..Len(tree[x]) :
          i < j => \A d \in Subtree(tree, tree[x][i]), e \in Subtree(tree, tree[x][j]) :
                      Pos(r, d) < Pos(r, e)

\* the class a filter denotes: the class registered under a name, or the class
Denoted(types, filterType) ==
    IF filterType.kind = "name" THEN types[filterType.v] ELSE filterType.v

\* the crawlers of a list whose class is, or derives from, the class denoted
\* by at least one of the filters
MatchingCrawlers(types, list, filterTypes) ==
    {x \in Range(list) :
        \E i \in 1..Len(filterTypes) : IsSubclass(nodeClass[x], Denoted(types, filterTypes[i]))}

\* C7: once the memo of a crawler is set, only a glob call on that crawler
\* with useCache=false changes it, and a glob call with useCache=true and no
\* filter returns the memoized list, whatever the subtree is now.
C7_CachedGlobReturnsMemo ==
    [][\A n \in nodes : globCache[n].set =>
          /\ globCache'[n] # globCache[n] =>
                (GlobStep /\ lastGlob'.node = n /\ ~lastGlob'.useCache)
          /\ (GlobStep /\ lastGlob'.node = n /\ lastGlob'.useCache
                       /\ lastGlob'.filterTypes = <<>>) =>
                (/\ lastGlob'.outcome = "ok"
                 /\ lastGlob'.result = globCache[n].list
                 /\ globCache'[n] = globCache[n])]_vars

\* a cached glob returned a list that is no longer the flattened subtree
C7_Witness ==
    /\ lastGlob.outcome = "ok"
    /\ lastGlob.useCache
    /\ lastGlob.before.set
    /\ lastGlob.filterTypes = <<>>
    /\ lastGlob.result = lastGlob.before.list
    /\ ~IsPreOrder(children, lastGlob.node, lastGlob.result)

\* C8: a glob call with useCache=false, filtered or not, replaces the memo by
\* the flattened current subtree and returns it (the matching crawlers of it
\* under a filter); the next glob call on the crawler with useCache=true and
\* no filter returns that refreshed list.
C8_UncachedGlobRefreshesMemo ==
    [][GlobStep =>
          /\ ~lastGlob'.useCache =>
                /\ globCache'[lastGlob'.node].set
                /\ IsPreOrder(children, lastGlob'.node, globCache'[lastGlob'.node].list)
                /\ lastGlob'.outcome = "ok"
                /\ IF lastGlob'.filterTypes = <<>>
                   THEN lastGlob'.result = globCache'[lastGlob'.node].list
                   ELSE Range(lastGlob'.result) =
                           MatchingCrawlers(regType, globCache'[lastGlob'.node].list,
                                            lastGlob'.filterTypes)
          /\ (/\ lastGlob.outcome # "-"
              /\ ~lastGlob.useCache
              /\ lastGlob.node = lastGlob'.node
              /\ lastGlob'.useCache
              /\ lastGlob'.filterTypes = <<>>) =>
                lastGlob'.result = lastGlob.fresh]_vars

\* a filtered glob with useCache=false replaced an older memo that differed
C8_Witness ==
    /\ lastGlob.outcome = "ok"
    /\ ~lastGlob.useCache
    /\ lastGlob.before.set
    /\ lastGlob.filterTypes # <<>>
    /\ lastGlob.result # <<>>
    /\ globCache[lastGlob.node].list # lastGlob.before.list
    /\ IsPreOrder(children, lastGlob.node, globCache[lastGlob.node].list)

C10_FilterByDenotedClass ==
    (lastGlob.outcome = "ok" /\ lastGlob.filterTypes # <<>>) =>
        /\ Range(lastGlob.result) =
              MatchingCrawlers(lastGlob.types, globCache[lastGlob.node].list,
                               lastGlob.filterTypes)
        /\ Len(lastGlob.result) = Cardinality(Range(lastGlob.result))
        /\ globCache[lastGlob.node] =
              IF lastGlob.useCache /\ lastGlob.before.set THEN lastGlob.before
              ELSE [set |-> TRUE, list |-> lastGlob.fresh]

\* --------------------------------------------------- serialization claims
\* C11: a crawler rebuilt from its own serialization has the class registered
\* under the same type name, the same variable names, context variable names
\* and tag names, and an equal value for every one of them.
C11_RoundTrip ==
    lastClone.result.outcome # "-" =>
        /\ lastClone.result.outcome = "node"
        /\ lastClone.result.node.cls = lastClone.of.cls
        /\ lastClone.result.node.vars = lastClone.of.vars
        /\ lastClone.result.node.ctx = lastClone.of.ctx
        /\ lastClone.result.node.tags = lastClone.of.tags

\* ------------------------------------------------- createFromPath claims
\* C20: createFromPath with a type name builds the crawler with the class
\* registered under that name and sets its 'type' variable to the name,
\* without calling any test; it fails when the name is not registered;
\* without a type it ends as Path.create does on the same registry and path.
C20_ExplicitTypeBypassesTests ==
    LET c == lastFromPath.call
        t == lastFromPath.crawlerType
    IN c.outcome # "-" =>
        IF t \in {NoType, ""}
        THEN c = CreateLoop(Reverse(lastFromPath.order), lastFromPath.types, c.path,
                            <<>>, <<>>)
        ELSE /\ c.tested = <<>>
             /\ t \notin Range(lastFromPath.order) =>
                   (c.outcome = "AssertionError" /\ c.constructed = <<>>)
             /\ t \in Range(lastFromPath.order) =>
                   /\ c.constructed = <<t>>
                   /\ c.outcome \in {"node", "raise"}
                   /\ (c.outcome = "node") <=> (Construct(lastFromPath.types[t], c.path) = "ok")
                   /\ c.outcome = "node" => (c.name = t /\ c.cls = lastFromPath.types[t])

\* a crawler was built with a named type whose test rejects the path, while
\* a type of higher precedence accepts it
C20_Witness ==
    LET c == lastFromPath.call
        t == lastFromPath.crawlerType
    IN /\ c.outcome = "node"
       /\ t \in Range(lastFromPath.order)
       /\ c.name = t
       /\ Test(lastFromPath.types[t], c.path) = "false"
       /\ \E n \in Range(lastFromPath.order) :
             /\ Test(lastFromPath.types[n], c.path) = "true"
             /\ \E i, j \in 1..Len(lastFromPath.order) :
                   lastFromPath.order[i] = t /\ lastFromPath.order[j] = n /\ i < j

\* -------------------------------------------------------- addFile claims
\* the step is an addFile call
AddStep == lastAdd'.flip # lastAdd.flip

\* the components of a path: what stands between its separators
RECURSIVE SplitPath(_, _, _)
SplitPath(p, cur, acc) ==
    IF p = <<>> THEN (IF cur = <<>> THEN acc ELSE Append(acc, cur))
    ELSE IF Head(p) = Sep
    THEN SplitPath(Tail(p), <<>>, IF cur = <<>> THEN acc ELSE Append(acc, cur))
    ELSE SplitPath(Tail(p), Append(cur, Head(p)), acc)
Components(p) == SplitPath(p, <<>>, <<>>)

\* p names something inside the directory dir, not dir itself
StrictlyUnder(p, dir) ==
    /\ Len(Components(p)) > Len(Components(dir))
    /\ SubSeq(Components(p), 1, Len(Components(dir))) = Components(dir)

\* the extension of a file name: what follows its last dot, nothing for a
\* name without a dot after its first character that is not a dot
RECURSIVE StripDots(_)
StripDots(name) == IF name # <<>> /\ Head(name) = "." THEN StripDots(Tail(name)) ELSE name
Extension(p) ==
    LET parts == Components(p)
        name == IF parts = <<>> THEN <<>> ELSE StripDots(parts[Len(parts)])
    IN IF \E i \in 1..Len(name) : name[i] = "." THEN SliceFrom(name, RFind(name, "."))
       ELSE <<>>

\* C12: an addFile call for a path that is not strictly under versionPath/data
\* fails with FileNotUnderDataDirectoryError and leaves the recorded files as
\* they were, so every recorded file lies strictly under the data directory.
C12_OnlyFilesUnderData ==
    [][AddStep /\ "dataPath" \in pub'.attrs =>
          /\ ~StrictlyUnder(lastAdd'.path, join(pub'.versionPath, DataName)) =>
                /\ lastAdd'.outcome = "FileNotUnderDataDirectoryError"
                /\ Recorded(cvFiles', heap') = Recorded(cvFiles, heap)
          /\ \A f \in DOMAIN cvFiles' :
                StrictlyUnder(f, join(pub'.versionPath, DataName))]_vars

\* C13 as stated: a successful addFile records the caller's 'size' and
\* 'type' when the caller supplies them, the size on disk and the extension
\* otherwise, and every other field of the caller unchanged.
C13_SuppliedSizeAndTypeRecorded ==
    [][AddStep /\ lastAdd'.outcome = "ok" =>
          LET md == lastAdd'.metadata
              rec == heap'[cvFiles'[lastAdd'.path]]
          IN /\ DOMAIN rec = DOMAIN md \cup {"size", "type"}
             /\ rec["size"] = IF "size" \in DOMAIN md THEN md["size"]
                              ELSE stat(disk, lastAdd'.path)
             /\ rec["type"] = IF "type" \in DOMAIN md THEN md["type"]
                              ELSE Extension(lastAdd'.path)
             /\ \A k \in DOMAIN md \ {"size", "type"} : rec[k] = md[k]]_vars

\* C13: a successful addFile always records the size on disk as 'size',
\* whatever 'size' the caller supplied; it records the caller's 'type' when
\* supplied and the extension otherwise, and every other field unchanged.
C13_SizeFromDiskTypeDefaulted ==
    [][AddStep /\ lastAdd'.outcome = "ok" =>
          LET md == lastAdd'.metadata
              rec == heap'[cvFiles'[lastAdd'.path]]
          IN /\ DOMAIN rec = DOMAIN md \cup {"size", "type"}
             /\ rec["size"] = stat(disk, lastAdd'.path)
             /\ rec["type"] = IF "type" \in DOMAIN md THEN md["type"]
                              ELSE Extension(lastAdd'.path)
             /\ \A k \in DOMAIN md \ {"size", "type"} : rec[k] = md[k]]_vars

\* a file was added with a caller's size that is not its size on disk
C13_Witness ==
    /\ lastAdd.outcome = "ok"
    /\ "size" \in DOMAIN lastAdd.metadata
    /\ lastAdd.metadata["size"] # lastAdd.stat
    /\ heap[cvFiles[lastAdd.path]]["size"] = lastAdd.stat
    /\ heap[cvFiles[lastAdd.path]]["type"] = <<"x">>

\* C15: an addFile call never removes a recorded path and changes the
\* metadata of no other path; the same call repeated on an unchanged file
\* leaves the recorded files as they were.
C15_AppendOnly ==
    [][AddStep =>
          /\ DOMAIN cvFiles \subseteq DOMAIN cvFiles'
          /\ DOMAIN cvFiles' \subseteq DOMAIN cvFiles \cup {lastAdd'.path}
          /\ \A f \in DOMAIN cvFiles \ {lastAdd'.path} :
                heap'[cvFiles'[f]] = heap[cvFiles[f]]
          /\ lastAdd'.outcome # "ok" => Recorded(cvFiles', heap') = Recorded(cvFiles, heap)
          /\ lastAdd'.again => Recorded(cvFiles', heap') = Recorded(cvFiles, heap)]_vars

\* a call was repeated while another file was recorded too
C15_Witness ==
    /\ lastAdd.again
    /\ lastAdd.outcome = "ok"
    /\ Cardinality(DOMAIN cvFiles) >= 2

\* the step is a fileMetadata call
MetaStep == lastMeta'.flip # lastMeta.flip

\* C14: what the task has recorded for a file, which is what fileMetadata
\* returns for it, changes only by an addFile call for that file: not when
\* the caller changes the dict it passed to addFile or a dict fileMetadata
\* returned.
C14_RecordedIsIndependent ==
    [][/\ ~AddStep => Recorded(cvFiles', heap') = Recorded(cvFiles, heap)
       /\ AddStep => \A f \in DOMAIN cvFiles \ {lastAdd'.path} :
                        heap'[cvFiles'[f]] = heap[cvFiles[f]]
       /\ MetaStep /\ lastMeta'.path \in DOMAIN cvFiles =>
             /\ lastMeta'.outcome = "value"
             /\ lastMeta'.value = heap[cvFiles[lastMeta'.path]]]_vars

\* the caller holds a dict it has changed, and the recorded size of the
\* file is still the size on disk
C14_Witness ==
    /\ FileA \in DOMAIN cvFiles
    /\ \E id \in callerRefs : "size" \in DOMAIN heap[id] /\ heap[id]["size"] = 99
    /\ heap[cvFiles[FileA]]["size"] = 10
    /\ lastMeta.outcome = "value"

\* ------------------------------------------------------- _perform claims
\* the step is a _perform call
PerformStep == lastPerform'.calls # lastPerform.calls

\* the artifact of the given name inside the version directory
Artifact(versionPath, name) == versionPath \o <<Sep>> \o name

\* the sum of the recorded sizes of the given files
RECURSIVE SumSizes(_, _, _)
SumSizes(paths, files, h) ==
    IF paths = {} THEN 0
    ELSE LET f == CHOOSE x \in paths : TRUE
         IN h[files[f]]["size"] + SumSizes(paths \ {f}, files, h)

\* C16: the info.json a _perform call writes has as 'size' the sum of the
\* recorded sizes of the files added so far, whatever addInfo set before,
\* and as 'version' the version of the task.
C16_InfoSizeIsSum ==
    [][PerformStep /\ Artifact(pub'.versionPath, InfoJson) \in Range(lastPerform'.wrote) =>
          LET info == published'[Artifact(pub'.versionPath, InfoJson)]
          IN /\ info["size"] = SumSizes(DOMAIN cvFiles, cvFiles, heap)
             /\ info["version"] = pub'.version
             /\ "version" \in pub'.attrs]_vars

\* info.json was written for two files after addInfo had set another size
C16_Witness ==
    /\ lastPerform.sizeSet
    /\ Cardinality(DOMAIN cvFiles) = 2
    /\ Artifact(VersionPath, InfoJson) \in Range(lastPerform.wrote)
    /\ published[Artifact(VersionPath, InfoJson)]["size"] = 15
    /\ published[Artifact(VersionPath, InfoJson)]["version"] = 7

\* C18: a _perform call writes env.json, info.json, data.json and
\* ingestorConfig inside versionPath in this order, each only after the ones
\* before it; it succeeds when all four are written, and when it fails the
\* later ones are not written and nothing written before is removed.
C18_WritesInOrderNoRollback ==
    [][PerformStep =>
          LET w == lastPerform'.wrote
              order == <<Artifact(pub'.versionPath, EnvJson),
                         Artifact(pub'.versionPath, InfoJson),
                         Artifact(pub'.versionPath, DataJson),
                         Artifact(pub'.versionPath, IngestorConfig)>>
          IN /\ Len(w) <= 4
             /\ w = SubSeq(order, 1, Len(w))
             /\ (lastPerform'.outcome = "ok") <=> (Len(w) = 4)
             /\ DOMAIN published' = DOMAIN published \cup Range(w)
             /\ \A f \in DOMAIN published \ Range(w) : published'[f] = published[f]]_vars

\* a _perform call failed at its third write: env.json and info.json are
\* there, data.json and the configuration copy are not
C18_Witness ==
    /\ lastPerform.outcome = "IOError"
    /\ lastPerform.wrote = <<Artifact(VersionPath, EnvJson), Artifact(VersionPath, InfoJson)>>
    /\ DOMAIN published = Range(lastPerform.wrote)

\* the part of f that follows the directory base and a separator
RelativeTo(f, base) ==
    CHOOSE r \in {SubSeq(f, n, Len(f)) : n \in 1..(Len(f) + 1)} : base \o <<Sep>> \o r = f

\* C19: the data.json a _perform call writes has one entry per recorded
\* file, under the file's path relative to versionPath, which starts with
\* 'data/' and differs from the key of every other file, with the file's
\* recorded metadata as value.
C19_ManifestKeysRelative ==
    [][PerformStep /\ Artifact(pub'.versionPath, DataJson) \in Range(lastPerform'.wrote) =>
          LET d == published'[Artifact(pub'.versionPath, DataJson)]
          IN /\ Cardinality(DOMAIN d) = Cardinality(DOMAIN cvFiles)
             /\ \A f \in DOMAIN cvFiles :
                   /\ RelativeTo(f, pub'.versionPath) \in DOMAIN d
                   /\ StartsWith(RelativeTo(f, pub'.versionPath), DataName \o <<Sep>>)
                   /\ d[RelativeTo(f, pub'.versionPath)] = heap[cvFiles[f]]
                   /\ \A g \in DOMAIN cvFiles \ {f} :
                         RelativeTo(g, pub'.versionPath) # RelativeTo(f, pub'.versionPath)]_vars

\* data.json was written for two files, one of them under the key data/a.x
C19_Witness ==
    /\ Artifact(VersionPath, DataJson) \in Range(lastPerform.wrote)
    /\ Cardinality(DOMAIN published[Artifact(VersionPath, DataJson)]) = 2
    /\ <<"d", "a", "t", "a", "/", "a", ".", "x">> \in
          DOMAIN published[Artifact(VersionPath, DataJson)]
    /\ published[Artifact(VersionPath, DataJson)][<<"d", "a", "t", "a", "/", "a", ".", "x">>]["size"] = 10

\* ------------------------------------------------------- accessor claims
\* the step is an accessor call
AccessStep == lastAccess'.flip # lastAccess.flip

\* the directory a path lies in: the path without its last name and the
\* separator before it
RECURSIVE ParentOf(_)
ParentOf(p) ==
    IF p = <<>> THEN <<>>
    ELSE IF p[Len(p)] = Sep THEN SubSeq(p, 1, Len(p) - 1)
    ELSE ParentOf(SubSeq(p, 1, Len(p) - 1))

\* the last name of a path
RECURSIVE LastName(_)
LastName(p) ==
    IF p = <<>> \/ p[Len(p)] = Sep THEN <<>>
    ELSE Append(LastName(SubSeq(p, 1, Len(p) - 1)), p[Len(p)])

\* the number a string of digits denotes
RECURSIVE NumberOf(_)
NumberOf(s) ==
    IF s = <<>> THEN 0
    ELSE 10 * NumberOf(SubSeq(s, 1, Len(s) - 1)) +
         Cardinality({d \in 1..10 : d < CHOOSE e \in 1..10 : Digits[e] = s[Len(s)]})

\* C17: the publish attributes are resolved once, at the first accessor
\* call made while a crawler is bound, from the first bound crawler: once
\* resolved they never change, whatever is bound or set later, and every
\* value an accessor returns afterwards is the one that crawler gave:
\* versionPath is the directory of its target, dataPath is versionPath/data,
\* version is the number after the first character of the folder name,
\* configPath and assetName are its variables.
C17_ResolvedOnceFromFirstNode ==
    [][/\ pub.loaded => pub' = pub
       /\ ~pub.loaded /\ pub'.loaded => (AccessStep /\ pub'.node = pathCrawlers[1])
       /\ AccessStep /\ pathCrawlers # <<>> => pub'.loaded
       /\ AccessStep /\ pub'.loaded /\ lastAccess'.res.outcome = "value" =>
             LET n == pub'.node
                 r == lastAccess'.res
                 folder == LastName(ParentOf(n.target))
             IN CASE lastAccess'.name = "versionPath" -> r.chars = ParentOf(n.target)
                  [] lastAccess'.name = "dataPath" ->
                        r.chars = ParentOf(n.target) \o <<Sep>> \o DataName
                  [] lastAccess'.name = "version" -> r.num = NumberOf(Tail(folder))
                  [] lastAccess'.name = "configPath" -> r.str = n.vars["configPath"]
                  [] lastAccess'.name = "assetName" ->
                        r.str = IF "assetName" \in DOMAIN n.vars THEN n.vars["assetName"]
                                ELSE NoneValue
                  [] OTHER -> r.str \in {n.vars[k] : k \in DOMAIN n.vars} \cup {NoneValue}]_vars

\* version() returned 7 for the folder v007 after the task was bound to a
\* crawler of the folder v012
C17_Witness ==
    /\ pub.loaded
    /\ pathCrawlers # <<>>
    /\ pathCrawlers[1].target = TargetV012
    /\ pub.node.target = TargetPath
    /\ lastAccess.name = "version"
    /\ lastAccess.res.outcome = "value"
    /\ lastAccess.res.num = 7

\* ------------------------------------------------------ fileMetadata claim
\* C21: a fileMetadata call fails with MetadataNotFoundError exactly when no
\* addFile call for that very path has succeeded so far, a failed addFile
\* not counting; otherwise it returns what the latest successful addFile for
\* the path recorded.
C21_KnownIffAdded ==
    [][MetaStep =>
          /\ lastMeta'.outcome \in {"value", "MetadataNotFoundError"}
          /\ lastMeta'.outcome = "MetadataNotFoundError" <=> lastMeta'.path \notin DOMAIN addLog
          /\ lastMeta'.outcome = "value" => lastMeta'.value = addLog[lastMeta'.path]]_vars

\* the file was added twice with different results, an addFile for another
\* path has just failed, and fileMetadata returned what the second recorded
C21_Witness ==
    /\ lastMeta.outcome = "value"
    /\ lastMeta.path = FileA
    /\ lastMeta.value = [size |-> 20, type |-> <<"x">>, note |-> <<"n">>]
    /\ lastAdd.path = MissingFile
    /\ lastAdd.outcome = "OSError"
    /\ DOMAIN addLog = {FileA}

\* --------------------------------------------------------- variant claim
\* C22: variant() returns the 'variant' variable of the first bound crawler
\* when that crawler defines 'assetName', and None otherwise.
C22_VariantIsNodeVariant ==
    [][AccessStep /\ lastAccess'.name = "variant" /\ lastAccess'.res.outcome = "value" =>
          lastAccess'.res.str =
             IF pub'.loaded /\ "assetName" \in DOMAIN pub'.node.vars
             THEN pub'.node.vars["variant"]
             ELSE NoneValue]_vars

\* ---------------------------------------------------- filtered glob claim
\* the crawlers of list that are in members, in the order of list
RECURSIVE Restrict(_, _)
Restrict(list, members) ==
    IF list = <<>> THEN <<>>
    ELSE IF Head(list) \in members THEN <<Head(list)>> \o Restrict(Tail(list), members)
    ELSE Restrict(Tail(list), members)

\* the glob call repeats the call before it: the same crawler, the same
\* filters, the same registry, and the memo of the call before
RepeatsGlob ==
    /\ lastGlob.outcome = "ok"
    /\ lastGlob'.node = lastGlob.node
    /\ lastGlob'.filterTypes = lastGlob.filterTypes
    /\ lastGlob'.order = lastGlob.order
    /\ lastGlob'.types = lastGlob.types
    /\ lastGlob'.useCache
    /\ lastGlob'.before.set

\* C23: a filtered glob returns the matching crawlers in the order they have
\* in the memo, the depth-first pre-order list, and a filtered glob that
\* repeats the call before it on the same memo returns the same list.
C23_FilteredKeepsOrder ==
    [][(GlobStep /\ lastGlob'.filterTypes # <<>> /\ lastGlob'.outcome = "ok") =>
          /\ lastGlob'.result =
                Restrict(globCache'[lastGlob'.node].list, Range(lastGlob'.result))
          /\ RepeatsGlob => lastGlob'.result = lastGlob.result]_vars

\* the part of it that holds: a filtered glob that repeats the call before it
\* on the same memo returns the same list
RepeatedGlobSameOrder ==
    [][(GlobStep /\ lastGlob'.filterTypes # <<>> /\ lastGlob'.outcome = "ok"
          /\ RepeatsGlob) => lastGlob'.result = lastGlob.result]_vars

====
